---------------------------- MODULE Spec2Model ----------------------------
(***************************************************************************)
(* The request handlers of src/app.py (a Flask social network: accounts,   *)
(* messages, follows, likes, a home feed) as a state machine over the      *)
(* relational store and the browser sessions.                              *)
(*                                                                         *)
(* One action is one request handled to completion, the before_request     *)
(* hook add_user_to_g included.  models.py and forms.py are not part of    *)
(* the examined source: User.authenticate, User.signup, the unique and     *)
(* foreign-key constraints and the timestamp default are modelled from     *)
(* the specification's sections 3, 4.1 and 6.                              *)
(***************************************************************************)
EXTENDS Integers, Sequences, FiniteSets, TLC

VARIABLES
    users,       \* Account Store: id -> row, DOMAIN users = the existing ids
    messages,    \* Message Store: id -> [user_id, timestamp]
    follows,     \* Follows rows <<user_following_id, user_being_followed_id>>
    likes,       \* Likes rows <<user_id, message_id>>
    session,     \* per browser session: session[CURR_USER_KEY], None when absent
    nextUserId,  \* the users id sequence
    nextMsgId,   \* the messages id sequence
    now,         \* the server clock read by the timestamp default
    response,    \* the last response: the handler and its outcome (body: the feed)
    toggled,     \* history: the completed like toggles that ended the run of
                 \* requests so far (whose, on what, how many in a row, the
                 \* Likes rows before the first)
    inflight,    \* per worker: the like request it is serving or served last
    raced        \* history: the branches taken by pairs of requests that both
                 \* read a Likes row before either wrote it

vars == <<users, messages, follows, likes, session, nextUserId, nextMsgId,
          now, response, toggled, inflight, raced>>

store == <<users, messages, follows, likes>>

----------------------------------------------------------------------------
(* Bounds of the model *)

MaxUserId == 3
MaxMsgId == 2
SmallMsgId == 1
BulkMsgs == 100
MaxNewMsgs == 2

(* Program constants *)

FeedLimit == 100

None == 0
CURR_USER_KEY == "curr_user"
DEFAULT_IMAGE_URL == "default-pic.png"
DEFAULT_HEADER_IMAGE_URL == "warbler-hero.jpg"

Sessions == {1, 2}
Workers == {1, 2}

Methods == {"GET", "POST"}

----------------------------------------------------------------------------
(* Request inputs *)

Passwords == {"password", "hunter2"}

SignupForms ==
    { [username |-> "bob",   email |-> "b@x", password |-> "hunter2", image_url |-> ""],
      [username |-> "alice", email |-> "b@x", password |-> "hunter2", image_url |-> "me.png"],
      [username |-> "bob",   email |-> "a@x", password |-> "password", image_url |-> ""] }

LoginForms ==
    { [username |-> "guest", password |-> "password"],
      [username |-> "alice", password |-> "hunter2"],
      [username |-> "alice", password |-> "password"],
      [username |-> "bob",   password |-> "hunter2"],
      [username |-> "carol", password |-> "hunter2"] }

EditForms ==
    { [username |-> "bob",   email |-> "b@x", image_url |-> "", header_image_url |-> "",
       bio |-> "hi"],
      [username |-> "alice", email |-> "a@x", image_url |-> "me.png",
       header_image_url |-> "sky.png", bio |-> ""] }

UserIdInputs == 1..MaxUserId

\* message ids a request may name: the two oldest, the newest ones, one unused
MsgIdInputs == {i \in 1..nextMsgId : i <= 2 \/ i >= nextMsgId - 2}

----------------------------------------------------------------------------
(* The password credential (models.py, bcrypt): a one-way value *)

Hash(pw) == <<"bcrypt", pw>>

CheckPassword(hashed, pw) == hashed = Hash(pw)

\* User.authenticate: the account id when the username exists and the password
\* verifies, None otherwise
Authenticate(username, password) ==
    LET found == {u \in DOMAIN users : users[u].username = username}
    IN  IF found = {} THEN None
        ELSE LET u == CHOOSE x \in found : TRUE
             IN  IF CheckPassword(users[u].password, password) THEN u ELSE None

\* a falsy form value replaced by a default (Python's `or`)
OrDefault(v, d) == IF v = "" THEN d ELSE v

\* the unique constraints on username and email, for a row written under id
UniqueViolation(id, username, email) ==
    \E u \in DOMAIN users \ {id} :
        users[u].username = username \/ users[u].email = email

----------------------------------------------------------------------------
(* before_request *)

\* add_user_to_g: g.user is the row of the session's account, None when the key
\* is absent or the row is gone
g_user(s) ==
    IF session[s] # None /\ session[s] \in DOMAIN users THEN session[s] ELSE None

do_login(s, u) == session' = [session EXCEPT ![s] = u]

do_logout(s) == session' = [session EXCEPT ![s] = None]

Idle == [pc |-> "idle", sid |-> 0, uid |-> 0, msg |-> 0, present |-> FALSE,
         first |-> FALSE, stale |-> FALSE, outcome |-> ""]

NoToggle == [uid |-> 0, msg |-> 0, run |-> 0, before |-> {}]

NoBody == [viewer |-> None, messages |-> <<>>]

\* the response of a handler other than a completed like toggle
Respond(s, op, outcome) ==
    /\ response' = [op |-> op, outcome |-> outcome, body |-> NoBody]
    /\ toggled' = NoToggle

Unauthorized(s, op) ==
    /\ Respond(s, op, "unauthorized")
    /\ UNCHANGED <<store, session, nextUserId, nextMsgId, now, inflight, raced>>

\* a response that changes neither the store nor the session
ReadOnly(s, op, outcome) ==
    /\ Respond(s, op, outcome)
    /\ UNCHANGED <<store, session, nextUserId, nextMsgId, now, inflight, raced>>

----------------------------------------------------------------------------
(* Signup, login, logout *)

\* POST /demo: log in as the guest account; no anti-forgery check
demo(s) ==
    LET user == Authenticate("guest", "password")
    IN  /\ UNCHANGED <<store, nextUserId, nextMsgId, now, inflight, raced>>
        /\ IF user # None
           THEN do_login(s, user) /\ Respond(s, "demo", "ok")
           ELSE UNCHANGED session /\ Respond(s, "demo", "guest_error")

\* the row User.signup adds
NewUser(form) ==
    [username |-> form.username, email |-> form.email,
     password |-> Hash(form.password),
     image_url |-> OrDefault(form.image_url, DEFAULT_IMAGE_URL),
     header_image_url |-> DEFAULT_HEADER_IMAGE_URL, bio |-> ""]

\* signup as it would be if the row were written whatever the constraints
MutSignupIgnoresUniqueness(s, method, csrf_ok, valid, form) ==
    /\ UNCHANGED <<messages, follows, likes, nextMsgId, now, inflight, raced>>
    /\ IF method = "POST" /\ csrf_ok /\ valid
       THEN /\ users' = [u \in DOMAIN users \cup {nextUserId} |->
                           IF u = nextUserId THEN NewUser(form) ELSE users[u]]
            /\ nextUserId' = nextUserId + 1
            /\ do_login(s, nextUserId)
            /\ Respond(s, "signup", "ok")
       ELSE /\ do_logout(s)
            /\ UNCHANGED <<users, nextUserId>>
            /\ Respond(s, "signup", "form")

\* GET/POST /signup: the session key is dropped first, whatever the method
signup(s, method, csrf_ok, valid, form) ==
    /\ UNCHANGED <<messages, follows, likes, nextMsgId, now, inflight, raced>>
    /\ IF method = "POST" /\ csrf_ok /\ valid
       THEN IF UniqueViolation(None, form.username, form.email)
            THEN \* IntegrityError at commit
                 /\ do_logout(s)
                 /\ UNCHANGED <<users, nextUserId>>
                 /\ Respond(s, "signup", "uniqueness")
            ELSE /\ users' = [u \in DOMAIN users \cup {nextUserId} |->
                                IF u = nextUserId THEN NewUser(form) ELSE users[u]]
                 /\ nextUserId' = nextUserId + 1
                 /\ do_login(s, nextUserId)
                 /\ Respond(s, "signup", "ok")
       ELSE /\ do_logout(s)
            /\ UNCHANGED <<users, nextUserId>>
            /\ Respond(s, "signup", "form")

\* login as it would be if a failed login dropped the session
MutLoginFailureLogsOut(s, method, csrf_ok, valid, form) ==
    /\ UNCHANGED <<store, nextUserId, nextMsgId, now, inflight, raced>>
    /\ IF method = "POST" /\ csrf_ok /\ valid
       THEN LET user == Authenticate(form.username, form.password)
            IN  IF user # None
                THEN do_login(s, user) /\ Respond(s, "login", "ok")
                ELSE do_logout(s) /\ Respond(s, "login", "invalid_credentials")
       ELSE UNCHANGED session /\ Respond(s, "login", "form")

\* GET/POST /login
login(s, method, csrf_ok, valid, form) ==
    /\ UNCHANGED <<store, nextUserId, nextMsgId, now, inflight, raced>>
    /\ IF method = "POST" /\ csrf_ok /\ valid
       THEN LET user == Authenticate(form.username, form.password)
            IN  IF user # None
                THEN do_login(s, user) /\ Respond(s, "login", "ok")
                ELSE UNCHANGED session /\ Respond(s, "login", "invalid_credentials")
       ELSE UNCHANGED session /\ Respond(s, "login", "form")

\* POST /logout
logout(s, csrf_ok) ==
    IF g_user(s) = None \/ ~csrf_ok
    THEN Unauthorized(s, "logout")
    ELSE /\ do_logout(s)
         /\ Respond(s, "logout", "ok")
         /\ UNCHANGED <<store, nextUserId, nextMsgId, now, inflight, raced>>

----------------------------------------------------------------------------
(* The read-only pages *)

\* a page about one account: login required, then get_or_404
UserPage(s, op, user_id) ==
    IF g_user(s) = None THEN Unauthorized(s, op)
    ELSE IF user_id \notin DOMAIN users THEN ReadOnly(s, op, "not_found")
    ELSE ReadOnly(s, op, "page")

\* GET /users
list_users(s) ==
    IF g_user(s) = None THEN Unauthorized(s, "list_users")
    ELSE ReadOnly(s, "list_users", "page")

\* GET /users/<user_id>
show_user(s, user_id) == UserPage(s, "show_user", user_id)

\* GET /users/<user_id>/following
show_following(s, user_id) == UserPage(s, "show_following", user_id)

\* GET /users/<user_id>/followers
show_followers(s, user_id) == UserPage(s, "show_followers", user_id)

\* GET /users/<user_id>/liked-messages
show_liked_messages(s, user_id) == UserPage(s, "show_liked_messages", user_id)

\* GET /messages/<message_id>
show_message(s, message_id) ==
    IF g_user(s) = None THEN Unauthorized(s, "show_message")
    ELSE IF message_id \notin DOMAIN messages THEN ReadOnly(s, "show_message", "not_found")
    ELSE ReadOnly(s, "show_message", "page")

----------------------------------------------------------------------------
(* Follows *)

\* start_following as it would be without the token check
MutStartFollowingNoToken(s, csrf_ok, follow_id) ==
    IF g_user(s) = None THEN Unauthorized(s, "start_following")
    ELSE IF follow_id \notin DOMAIN users THEN ReadOnly(s, "start_following", "not_found")
    ELSE IF <<g_user(s), follow_id>> \in follows
         THEN ReadOnly(s, "start_following", "error")
    ELSE /\ follows' = follows \cup {<<g_user(s), follow_id>>}
         /\ Respond(s, "start_following", "ok")
         /\ UNCHANGED <<users, messages, likes, session, nextUserId, nextMsgId, now,
                        inflight, raced>>

\* POST /users/follow/<follow_id>
start_following(s, csrf_ok, follow_id) ==
    IF g_user(s) = None \/ ~csrf_ok THEN Unauthorized(s, "start_following")
    ELSE IF follow_id \notin DOMAIN users THEN ReadOnly(s, "start_following", "not_found")
    ELSE IF <<g_user(s), follow_id>> \in follows
         THEN \* a second row under the composite key: the commit fails
              ReadOnly(s, "start_following", "error")
    ELSE /\ follows' = follows \cup {<<g_user(s), follow_id>>}
         /\ Respond(s, "start_following", "ok")
         /\ UNCHANGED <<users, messages, likes, session, nextUserId, nextMsgId, now,
                        inflight, raced>>

\* POST /users/stop-following/<follow_id>
stop_following(s, csrf_ok, follow_id) ==
    IF g_user(s) = None \/ ~csrf_ok THEN Unauthorized(s, "stop_following")
    ELSE IF <<g_user(s), follow_id>> \notin follows
         THEN \* list.remove of an absent element (or of None) raises
              ReadOnly(s, "stop_following", "error")
    ELSE /\ follows' = follows \ {<<g_user(s), follow_id>>}
         /\ Respond(s, "stop_following", "ok")
         /\ UNCHANGED <<users, messages, likes, session, nextUserId, nextMsgId, now,
                        inflight, raced>>

----------------------------------------------------------------------------
(* Profile edit, account deletion *)

\* the row after a profile edit: every field but the password
Edited(row, form) ==
    [row EXCEPT !.username = form.username,
                !.email = form.email,
                !.image_url = OrDefault(form.image_url, DEFAULT_IMAGE_URL),
                !.header_image_url =
                    OrDefault(form.header_image_url, DEFAULT_HEADER_IMAGE_URL),
                !.bio = form.bio]

\* profile as it would be without the password check
MutProfileSkipsPassword(s, method, csrf_ok, valid, form, password) ==
    IF g_user(s) = None THEN Unauthorized(s, "profile")
    ELSE IF ~(method = "POST" /\ csrf_ok /\ valid) THEN ReadOnly(s, "profile", "form")
    ELSE IF UniqueViolation(g_user(s), form.username, form.email)
         THEN ReadOnly(s, "profile", "error")
    ELSE /\ users' = [users EXCEPT ![g_user(s)] = Edited(@, form)]
         /\ Respond(s, "profile", "ok")
         /\ UNCHANGED <<messages, follows, likes, session, nextUserId, nextMsgId, now,
                        inflight, raced>>

\* GET/POST /users/edit-profile
profile(s, method, csrf_ok, valid, form, password) ==
    IF g_user(s) = None THEN Unauthorized(s, "profile")
    ELSE IF ~(method = "POST" /\ csrf_ok /\ valid) THEN ReadOnly(s, "profile", "form")
    ELSE IF Authenticate(users[g_user(s)].username, password) = None
         THEN ReadOnly(s, "profile", "incorrect_password")
    ELSE IF UniqueViolation(g_user(s), form.username, form.email)
         THEN \* IntegrityError at commit, not caught
              ReadOnly(s, "profile", "error")
    ELSE /\ users' = [users EXCEPT ![g_user(s)] = Edited(@, form)]
         /\ Respond(s, "profile", "ok")
         /\ UNCHANGED <<messages, follows, likes, session, nextUserId, nextMsgId, now,
                        inflight, raced>>

\* the store without the messages ids, their likes rows removed with them
WithoutMessages(ids) ==
    [m \in DOMAIN messages \ ids |-> messages[m]]

LikesWithoutMessages(ids) == {l \in likes : l[2] \notin ids}

AuthoredBy(u) == {m \in DOMAIN messages : messages[m].user_id = u}

\* delete_user as it would be without the deletion of the account's messages
MutDeleteUserKeepsMessages(s, csrf_ok) ==
    IF g_user(s) = None \/ ~csrf_ok THEN Unauthorized(s, "delete_user")
    ELSE LET u == g_user(s)
         IN  /\ do_logout(s)
             /\ users' = [x \in DOMAIN users \ {u} |-> users[x]]
             /\ follows' = {f \in follows : f[1] # u /\ f[2] # u}
             /\ likes' = {l \in likes : l[1] # u}
             /\ Respond(s, "delete_user", "ok")
             /\ UNCHANGED <<messages, nextUserId, nextMsgId, now, inflight, raced>>

\* POST /users/delete
delete_user(s, csrf_ok) ==
    IF g_user(s) = None \/ ~csrf_ok THEN Unauthorized(s, "delete_user")
    ELSE LET u == g_user(s)
             gone == AuthoredBy(u)
         IN  /\ do_logout(s)
             /\ messages' = WithoutMessages(gone)
             /\ users' = [x \in DOMAIN users \ {u} |-> users[x]]
             /\ follows' = {f \in follows : f[1] # u /\ f[2] # u}
             /\ likes' = {l \in LikesWithoutMessages(gone) : l[1] # u}
             /\ Respond(s, "delete_user", "ok")
             /\ UNCHANGED <<nextUserId, nextMsgId, now, inflight, raced>>

----------------------------------------------------------------------------
(* Messages *)

\* GET/POST /messages/new
add_message(s, method, csrf_ok, valid) ==
    IF g_user(s) = None THEN Unauthorized(s, "add_message")
    ELSE IF ~(method = "POST" /\ csrf_ok /\ valid) THEN ReadOnly(s, "add_message", "form")
    ELSE /\ \E t \in {now, now + 1} :
              /\ now' = t
              /\ messages' = [m \in DOMAIN messages \cup {nextMsgId} |->
                                IF m = nextMsgId
                                THEN [user_id |-> g_user(s), timestamp |-> t]
                                ELSE messages[m]]
         /\ nextMsgId' = nextMsgId + 1
         /\ Respond(s, "add_message", "ok")
         /\ UNCHANGED <<users, follows, likes, session, nextUserId, inflight, raced>>

\* POST /messages/<message_id>/delete
delete_message(s, csrf_ok, message_id) ==
    IF g_user(s) = None \/ ~csrf_ok THEN Unauthorized(s, "delete_message")
    ELSE IF message_id \notin DOMAIN messages
         THEN ReadOnly(s, "delete_message", "not_found")
    ELSE /\ messages' = WithoutMessages({message_id})
         /\ likes' = LikesWithoutMessages({message_id})
         /\ Respond(s, "delete_message", "ok")
         /\ UNCHANGED <<users, follows, session, nextUserId, nextMsgId, now,
                        inflight, raced>>

----------------------------------------------------------------------------
(* Likes *)

\* the write as it would be if like_message only ever appended
MutLikeWriteAppends(uid, msg, present) == likes \cup {<<uid, msg>>}

\* the rows after the branch like_message took on what it read
LikeWrite(uid, msg, present) ==
    IF present THEN likes \ {<<uid, msg>>} ELSE likes \cup {<<uid, msg>>}

\* the flush that cannot commit: a parent row gone, a DELETE matching no row,
\* an INSERT of a row already there
LikeCommitFails(uid, msg, present) ==
    \/ uid \notin DOMAIN users
    \/ msg \notin DOMAIN messages
    \/ present /\ <<uid, msg>> \notin likes
    \/ ~present /\ <<uid, msg>> \in likes

\* like_message as it would be without the check of the message's author
MutLikeOwnMessage(s, csrf_ok, msg_id) ==
    IF ~csrf_ok \/ g_user(s) = None THEN Unauthorized(s, "like_message")
    ELSE IF msg_id \notin DOMAIN messages THEN ReadOnly(s, "like_message", "not_found")
    ELSE LET present == <<g_user(s), msg_id>> \in likes
         IN  /\ likes' = IF present THEN likes \ {<<g_user(s), msg_id>>}
                         ELSE likes \cup {<<g_user(s), msg_id>>}
             /\ response' = [op |-> "like_message", outcome |-> "ok", body |-> NoBody]
             /\ toggled' = NoToggle
             /\ UNCHANGED <<users, messages, follows, session, nextUserId, nextMsgId,
                            now, inflight, raced>>

\* POST /messages/<msg_id>/like, handled to completion
like_message(s, csrf_ok, msg_id) ==
    IF ~csrf_ok \/ g_user(s) = None THEN Unauthorized(s, "like_message")
    ELSE IF msg_id \notin DOMAIN messages THEN ReadOnly(s, "like_message", "not_found")
    ELSE IF messages[msg_id].user_id = g_user(s)
         THEN ReadOnly(s, "like_message", "forbidden")
    ELSE LET present == <<g_user(s), msg_id>> \in likes
         IN  /\ likes' = LikeWrite(g_user(s), msg_id, present)
             /\ response' = [op |-> "like_message", outcome |-> "ok", body |-> NoBody]
             /\ toggled' = IF toggled.uid = g_user(s) /\ toggled.msg = msg_id
                                /\ toggled.run = 1
                            THEN [toggled EXCEPT !.run = 2]
                            ELSE [uid |-> g_user(s), msg |-> msg_id, run |-> 1,
                                  before |-> likes]
             /\ UNCHANGED <<users, messages, follows, session, nextUserId, nextMsgId,
                            now, inflight, raced>>

\* the same request on worker w, up to and including its read of
\* g.user.liked_messages; the write waits for like_commit
like_read(w, s, csrf_ok, msg_id) ==
    /\ inflight[w].pc # "read"
    /\ IF ~csrf_ok \/ g_user(s) = None THEN Unauthorized(s, "like_message")
       ELSE IF msg_id \notin DOMAIN messages
            THEN ReadOnly(s, "like_message", "not_found")
       ELSE IF messages[msg_id].user_id = g_user(s)
            THEN ReadOnly(s, "like_message", "forbidden")
       ELSE /\ inflight' = [inflight EXCEPT ![w] =
                    [pc |-> "read", sid |-> s, uid |-> g_user(s), msg |-> msg_id,
                     present |-> <<g_user(s), msg_id>> \in likes, first |-> FALSE,
                     stale |-> FALSE, outcome |-> ""]]
            /\ UNCHANGED <<store, session, nextUserId, nextMsgId, now, response,
                           toggled, raced>>

\* requests q and r are for the same Likes row and took the same branch
SameToggle(q, r) == q.uid = r.uid /\ q.msg = r.msg /\ q.present = r.present

\* like_commit as it would be if the toggle were one conditional write on the
\* row as it is at the commit
MutLikeCommitRereads(w) ==
    /\ inflight[w].pc = "read"
    /\ LET r == inflight[w]
           gone == r.uid \notin DOMAIN users \/ r.msg \notin DOMAIN messages
           out == IF gone THEN "error" ELSE "ok"
           overtaken == {v \in Workers \ {w} :
                           ~gone /\ inflight[v].pc = "read"
                                 /\ SameToggle(inflight[v], r)}
       IN  /\ likes' = IF gone THEN likes
                       ELSE IF <<r.uid, r.msg>> \in likes
                            THEN likes \ {<<r.uid, r.msg>>}
                            ELSE likes \cup {<<r.uid, r.msg>>}
           /\ inflight' = [v \in Workers |->
                  IF v = w THEN [r EXCEPT !.pc = "done", !.outcome = out,
                                          !.first = (overtaken # {})]
                  ELSE IF v \in overtaken THEN [inflight[v] EXCEPT !.stale = TRUE]
                  ELSE inflight[v]]
           /\ response' = [op |-> "like_message", outcome |-> out, body |-> NoBody]
           /\ toggled' = NoToggle
           /\ UNCHANGED <<users, messages, follows, session, nextUserId, nextMsgId,
                          now, raced>>

\* the write and db.session.commit() of worker w's request.  History: a write
\* marks every request that has read what it overwrites and is still to
\* commit as stale, and its own request as the first of the two.
like_commit(w) ==
    /\ inflight[w].pc = "read"
    /\ LET r == inflight[w]
           fails == LikeCommitFails(r.uid, r.msg, r.present)
           out == IF fails THEN "error" ELSE "ok"
           overtaken == {v \in Workers \ {w} :
                           ~fails /\ inflight[v].pc = "read"
                                  /\ SameToggle(inflight[v], r)}
           overtook == {v \in Workers \ {w} :
                           r.stale /\ inflight[v].pc = "done" /\ inflight[v].first
                                   /\ SameToggle(inflight[v], r)}
       IN  /\ likes' = IF fails THEN likes ELSE LikeWrite(r.uid, r.msg, r.present)
           /\ inflight' = [v \in Workers |->
                  IF v = w THEN [r EXCEPT !.pc = "done", !.outcome = out,
                                          !.first = (overtaken # {})]
                  ELSE IF v \in overtaken THEN [inflight[v] EXCEPT !.stale = TRUE]
                  ELSE inflight[v]]
           /\ response' = [op |-> "like_message", outcome |-> out, body |-> NoBody]
           /\ toggled' = NoToggle
           /\ raced' = IF overtook # {}
                       THEN raced \cup {IF r.present THEN "delete" ELSE "insert"}
                       ELSE raced
           /\ UNCHANGED <<users, messages, follows, session, nextUserId, nextMsgId, now>>

----------------------------------------------------------------------------
(* The home feed *)

\* the ids as they would be without the viewer's own
MutFollowingIdsWithoutSelf(u) == {f[2] : f \in {x \in follows : x[1] = u}}

\* [user.id for user in g.user.following] + [g.user.id]
following_ids(u) == {f[2] : f \in {x \in follows : x[1] = u}} \cup {u}

\* .filter(Message.user_id.in_(ids))
Filter(ids) == {m \in DOMAIN messages : messages[m].user_id \in ids}

RECURSIVE Perms(_)
Perms(S) ==
    IF S = {} THEN {<<>>}
    ELSE UNION {{<<x>> \o p : p \in Perms(S \ {x})} : x \in S}

\* .order_by(Message.timestamp.desc()): every order the store may return, rows
\* of equal timestamp in any order.  Ordered(S, lo, hi) orders the rows of S,
\* whose timestamps are in lo..hi: the newer half before the older half.
RECURSIVE Ordered(_, _, _)
Ordered(S, lo, hi) ==
    IF S = {} THEN {<<>>}
    ELSE IF lo >= hi THEN Perms(S)
    ELSE LET mid == (lo + hi) \div 2
             newer == {m \in S : messages[m].timestamp > mid}
         IN  {p \o q : p \in Ordered(newer, mid + 1, hi),
                       q \in Ordered(S \ newer, lo, mid)}

OrderByTimestampDesc(S) == Ordered(S, 0, now)

\* .limit(n)
Limit(q, n) == SubSeq(q, 1, IF Len(q) < n THEN Len(q) ELSE n)

\* the query of homepage for viewer u
HomeFeeds(u) ==
    {Limit(q, FeedLimit) : q \in OrderByTimestampDesc(Filter(following_ids(u)))}

\* GET /
homepage(s) ==
    /\ UNCHANGED <<store, session, nextUserId, nextMsgId, now, inflight, raced>>
    /\ toggled' = NoToggle
    /\ IF g_user(s) # None
       THEN \E feed \in HomeFeeds(g_user(s)) :
                response' = [op |-> "homepage", outcome |-> "page",
                             body |-> [viewer |-> g_user(s), messages |-> feed]]
       ELSE response' = [op |-> "homepage", outcome |-> "anon_page", body |-> NoBody]

----------------------------------------------------------------------------
(* Initial states *)

Guest == [username |-> "guest", email |-> "g@x", password |-> Hash("password"),
          image_url |-> DEFAULT_IMAGE_URL,
          header_image_url |-> DEFAULT_HEADER_IMAGE_URL, bio |-> ""]

Alice == [username |-> "alice", email |-> "a@x", password |-> Hash("hunter2"),
          image_url |-> DEFAULT_IMAGE_URL,
          header_image_url |-> DEFAULT_HEADER_IMAGE_URL, bio |-> ""]

Bob == [username |-> "bob", email |-> "b@x", password |-> Hash("hunter2"),
        image_url |-> DEFAULT_IMAGE_URL,
        header_image_url |-> DEFAULT_HEADER_IMAGE_URL, bio |-> ""]

NoResponse == [op |-> "", outcome |-> "", body |-> NoBody]

\* a store with the guest account and one more, no messages yet, nobody logged in
Init ==
    /\ users = (1 :> Guest) @@ (2 :> Alice)
    /\ messages = << >>
    /\ follows = {}
    /\ likes = {}
    /\ session = [s \in Sessions |-> None]
    /\ nextUserId = 3
    /\ nextMsgId = 1
    /\ now = 0
    /\ response = NoResponse
    /\ toggled = NoToggle
    /\ inflight = [w \in Workers |-> Idle]
    /\ raced = {}

----------------------------------------------------------------------------
(* Requests handled one at a time, grouped by what they touch.  S: the       *)
(* sessions that send them; U: the account ids they name; cap: the last id   *)
(* the model lets a sequence hand out.                                       *)

\* what a browser submits with a form: the method, whether the anti-forgery
\* token is valid, whether the other fields validate, the fields
Submitted(Forms) ==
    {<<"POST", TRUE, TRUE, f>> : f \in Forms}
        \cup {<<sub[1], sub[2], sub[3], CHOOSE f \in Forms : TRUE>> :
                sub \in {<<"GET", TRUE, TRUE>>, <<"POST", FALSE, TRUE>>,
                         <<"POST", TRUE, FALSE>>}}

NoFields == {"-"}

LoginRequests(S) ==
    \/ \E s \in S : demo(s)
    \/ \E s \in S, sub \in Submitted(LoginForms) :
          login(s, sub[1], sub[2], sub[3], sub[4])
    \/ \E s \in S, csrf_ok \in BOOLEAN : logout(s, csrf_ok)

SignupRequests(S) ==
    \E s \in S, sub \in Submitted(SignupForms) :
        /\ signup(s, sub[1], sub[2], sub[3], sub[4])
        /\ nextUserId' <= MaxUserId + 1

PageRequests(S, U) ==
    \/ \E s \in S : list_users(s)
    \/ \E s \in S, user_id \in U : show_user(s, user_id)
    \/ \E s \in S, user_id \in U : show_following(s, user_id)
    \/ \E s \in S, user_id \in U : show_followers(s, user_id)
    \/ \E s \in S, user_id \in U : show_liked_messages(s, user_id)
    \/ \E s \in S, message_id \in MsgIdInputs : show_message(s, message_id)

FollowRequests(S, U) ==
    \/ \E s \in S, csrf_ok \in BOOLEAN, follow_id \in U :
          start_following(s, csrf_ok, follow_id)
    \/ \E s \in S, csrf_ok \in BOOLEAN, follow_id \in U :
          stop_following(s, csrf_ok, follow_id)

AccountRequests(S) ==
    \/ \E s \in S, sub \in Submitted(EditForms), password \in Passwords :
          profile(s, sub[1], sub[2], sub[3], sub[4], password)
    \/ \E s \in S, csrf_ok \in BOOLEAN : delete_user(s, csrf_ok)

MessageRequests(S, cap) ==
    \/ \E s \in S, sub \in Submitted(NoFields) :
          /\ add_message(s, sub[1], sub[2], sub[3])
          /\ nextMsgId' <= cap + 1
    \/ \E s \in S, csrf_ok \in BOOLEAN, message_id \in MsgIdInputs :
          delete_message(s, csrf_ok, message_id)

LikeRequests(S) ==
    \E s \in S, csrf_ok \in BOOLEAN, msg_id \in MsgIdInputs :
        like_message(s, csrf_ok, msg_id)

HomeRequests(S) ==
    \E s \in S : homepage(s)

----------------------------------------------------------------------------
(* Every handler: the first browser sends every request; a second browser    *)
(* logs in as the guest and deletes the account.                             *)

Next ==
    \/ LoginRequests({1})
    \/ SignupRequests({1})
    \/ PageRequests({1}, {2})
    \/ FollowRequests({1}, {2})
    \/ AccountRequests({1})
    \/ MessageRequests({1}, SmallMsgId)
    \/ LikeRequests({1})
    \/ HomeRequests({1})
    \/ demo(2)
    \/ \E csrf_ok \in BOOLEAN : delete_user(2, csrf_ok)

Spec == Init /\ [][Next]_vars

(* Accounts: signup, login, profile edit, deletion *)

NextAccounts ==
    \/ LoginRequests(Sessions)
    \/ SignupRequests(Sessions)
    \/ AccountRequests(Sessions)

SpecAccounts == Init /\ [][NextAccounts]_vars

(* Messages and their likes, as accounts log in, post, like, delete messages *)
(* and delete themselves                                                     *)

NextMessages ==
    \/ LoginRequests(Sessions)
    \/ MessageRequests(Sessions, MaxMsgId)
    \/ LikeRequests(Sessions)
    \/ \E s \in Sessions, csrf_ok \in BOOLEAN : delete_user(s, csrf_ok)

SpecMessages == Init /\ [][NextMessages]_vars

(* The home feed over a store that already holds BulkMsgs messages: the      *)
(* three accounts take turns as authors, the clock ticked once per message   *)
(* but for the first two, and the first browser is logged in.                *)

SeedAuthor(i) == 1 + (i % 3)

SeedTimestamp(i) == IF i = 1 THEN 1 ELSE i - 1

InitFeed ==
    /\ users = (1 :> Guest) @@ (2 :> Alice) @@ (3 :> Bob)
    /\ messages = [i \in 1..BulkMsgs |->
                     [user_id |-> SeedAuthor(i), timestamp |-> SeedTimestamp(i)]]
    /\ follows \in {{}, {<<1, 2>>}}
    /\ likes = {}
    /\ session \in {[s \in Sessions |-> IF s = 1 THEN v ELSE None] : v \in {1, 2}}
    /\ nextUserId = 4
    /\ nextMsgId = BulkMsgs + 1
    /\ now = SeedTimestamp(BulkMsgs)
    /\ response = NoResponse
    /\ toggled = NoToggle
    /\ inflight = [w \in Workers |-> Idle]
    /\ raced = {}

NextFeed ==
    \/ FollowRequests({1}, {2, 3})
    \/ MessageRequests({1}, BulkMsgs + MaxNewMsgs)
    \/ HomeRequests({1})

SpecFeed == InitFeed /\ [][NextFeed]_vars

(* Like requests of the guest's browser served by concurrent workers, each   *)
(* request a read step and a commit step, while the other account posts and  *)
(* deletes.                                                                  *)

InitRace ==
    /\ users = (1 :> Guest) @@ (2 :> Alice)
    /\ messages = << >>
    /\ follows = {}
    /\ likes = {}
    /\ session = [s \in Sessions |-> s]
    /\ nextUserId = 3
    /\ nextMsgId = 1
    /\ now = 0
    /\ response = NoResponse
    /\ toggled = NoToggle
    /\ inflight = [w \in Workers |-> Idle]
    /\ raced = {}

ConcurrentLikeRequests(S) ==
    \/ \E w \in Workers, s \in S, csrf_ok \in BOOLEAN, msg_id \in MsgIdInputs :
          like_read(w, s, csrf_ok, msg_id)
    \/ \E w \in Workers : like_commit(w)

NextRace ==
    \/ MessageRequests({2}, MaxMsgId)
    \/ ConcurrentLikeRequests({1})

SpecRace == InitRace /\ [][NextRace]_vars

----------------------------------------------------------------------------
(* Properties *)

\* the step left the Account Store, the Message Store, the Social Graph and
\* the session as they were
Untouched == UNCHANGED <<users, messages, follows, likes, session>>

Refused == response'.outcome = "unauthorized" /\ Untouched

\* a request of session s to each of the six routes that validate g.csrf_form,
\* sent with a token that is valid or not as csrf_ok says
FollowStep(s, csrf_ok) == \E id \in UserIdInputs : start_following(s, csrf_ok, id)
UnfollowStep(s, csrf_ok) == \E id \in UserIdInputs : stop_following(s, csrf_ok, id)
LikeStep(s, csrf_ok) == \E m \in MsgIdInputs : like_message(s, csrf_ok, m)
DeleteMessageStep(s, csrf_ok) == \E m \in MsgIdInputs : delete_message(s, csrf_ok, m)
DeleteUserStep(s, csrf_ok) == delete_user(s, csrf_ok)
LogoutStep(s, csrf_ok) == logout(s, csrf_ok)

\* a POST of session s to each of the two routes that validate their own form
ComposeStep(s, csrf_ok) == \E valid \in BOOLEAN : add_message(s, "POST", csrf_ok, valid)
EditStep(s, csrf_ok) ==
    \E valid \in BOOLEAN, form \in EditForms, password \in Passwords :
        profile(s, "POST", csrf_ok, valid, form, password)

\* a request to the route without the Authenticated state or without a valid
\* token is refused
RefusesWithoutBoth(op, Step(_, _)) ==
    response'.op = op
    => \A s \in Sessions, csrf_ok \in BOOLEAN :
          g_user(s) = None \/ ~csrf_ok => Refused \/ ~Step(s, csrf_ok)

\* a POST to the route is refused without the Authenticated state and answered
\* with the form, nothing changed, when only the token is invalid
RefusesOrShowsForm(op, Step(_, _)) ==
    response'.op = op
    => \A s \in Sessions, csrf_ok \in BOOLEAN :
          /\ g_user(s) = None => Refused \/ ~Step(s, csrf_ok)
          /\ g_user(s) # None /\ ~csrf_ok
                => (response'.outcome = "form" /\ Untouched) \/ ~Step(s, csrf_ok)

C2_OwnerOnlyDelete ==
    [][\A m \in DOMAIN messages :
          m \notin DOMAIN messages'
          => \/ /\ response'.op = "delete_message"
                /\ \E s \in Sessions :
                      /\ delete_message(s, TRUE, m)
                      /\ g_user(s) = messages[m].user_id
             \/ /\ response'.op = "delete_user"
                /\ messages[m].user_id \notin DOMAIN users']_vars

\* C3 as stated: the session's account changes to none only by a logout or a
\* self-delete, and to an account only by a successful login (the demo login
\* included) or signup; no other request changes it.
C3_SessionTransitions ==
    [][\A s \in Sessions :
          session'[s] # session[s]
          => IF session'[s] = None
             THEN response'.op \in {"logout", "delete_user"} /\ response'.outcome = "ok"
             ELSE response'.op \in {"login", "demo", "signup"}
                  /\ response'.outcome = "ok"]_vars

\* C3, amended: the session's account changes to none only by a logout, a
\* self-delete or a request to the signup route that creates no account (the
\* route drops the session key first: a GET, an invalid form, a taken username
\* or email), and to an account only by a successful login (the demo login
\* included) or signup; no other request changes it.
C3_SessionTransitionsWithSignup ==
    [][\A s \in Sessions :
          session'[s] # session[s]
          => IF session'[s] = None
             THEN \/ response'.op \in {"logout", "delete_user"}
                     /\ response'.outcome = "ok"
                  \/ response'.op = "signup"
                     /\ response'.outcome \in {"form", "uniqueness"}
             ELSE response'.op \in {"login", "demo", "signup"}
                  /\ response'.outcome = "ok"]_vars

\* one browser deleted the account the other is logged in as: the deleting
\* session is anonymous, the other still carries the account's id
C3_Witness ==
    /\ response.op = "delete_user"
    /\ response.outcome = "ok"
    /\ \E s \in Sessions : session[s] = None
    /\ \E s \in Sessions : session[s] # None /\ session[s] \notin DOMAIN users

\* no Likes row joins an account to a message it authored
NoSelfLike ==
    \A l \in likes : l[2] \in DOMAIN messages /\ messages[l[2]].user_id # l[1]

\* C4: a like toggle by an account on a message it owns yields Forbidden and
\* creates or removes no like edge; in every reachable state no like edge
\* (A, M) exists with owner(M) = A.
C4_SelfLikeForbidden ==
    /\ []NoSelfLike
    /\ [][\A s \in Sessions, m \in DOMAIN messages :
             response'.op = "like_message" /\ like_message(s, TRUE, m)
                 /\ g_user(s) # None
                 /\ messages[m].user_id = g_user(s)
             => response'.outcome = "forbidden" /\ likes' = likes]_vars

\* an account with a valid token was refused the like of a message
C4_Witness ==
    response.op = "like_message" /\ response.outcome = "forbidden"

\* the messages the home feed of viewer may show: the viewer's and those of the
\* accounts the viewer follows
Qualifying(viewer) ==
    {m \in DOMAIN messages :
        messages[m].user_id = viewer \/ <<viewer, messages[m].user_id>> \in follows}

Shown(feed) == {feed[i] : i \in 1..Len(feed)}

Smaller(a, b) == IF a < b THEN a ELSE b

\* C5: the home feed of an authenticated viewer holds only messages of the
\* viewer and of the accounts the viewer follows, each once, never more than
\* 100, in descending order of timestamp (messages of equal timestamp in either
\* order), all of them when at most 100 qualify and otherwise 100 of them than
\* which no qualifying message left out is newer.
C5_HomeFeed ==
    response.op = "homepage" /\ response.outcome = "page"
    => LET feed == response.body.messages
           Q == Qualifying(response.body.viewer)
       IN  /\ Shown(feed) \subseteq Q
           /\ Len(feed) <= 100
           /\ \A i, j \in 1..Len(feed) : i < j => feed[i] # feed[j]
           /\ \A i \in 1..(Len(feed) - 1) :
                 messages[feed[i]].timestamp >= messages[feed[i + 1]].timestamp
           /\ Len(feed) = Smaller(Cardinality(Q), 100)
           /\ \A m \in Q \ Shown(feed), i \in 1..Len(feed) :
                 messages[m].timestamp <= messages[feed[i]].timestamp

\* a feed cut at 100 entries that shows a followed account's message and leaves
\* out a qualifying message as new as its last entry
C5_Witness ==
    /\ response.op = "homepage" /\ response.outcome = "page"
    /\ LET feed == response.body.messages
           Q == Qualifying(response.body.viewer)
       IN  /\ Cardinality(Q) > 100
           /\ Len(feed) = 100
           /\ \E i \in 1..100 : messages[feed[i]].user_id # response.body.viewer
           /\ \E m \in Q \ Shown(feed) :
                 messages[m].timestamp = messages[feed[100]].timestamp

\* every message's author is an existing account
NoOrphans ==
    \A m \in DOMAIN messages : messages[m].user_id \in DOMAIN users

\* C6: deleting an account removes the account row and every message it
\* authored in one step, removes no other account or message, and leaves the
\* deleting session anonymous; in every reachable state every message's
\* user_id refers to an existing account.
C6_DeleteAccountCascade ==
    /\ []NoOrphans
    /\ [][\A s \in Sessions :
             response'.op = "delete_user" /\ delete_user(s, TRUE) /\ g_user(s) # None
             => /\ DOMAIN users' = DOMAIN users \ {g_user(s)}
                /\ DOMAIN messages' =
                      {m \in DOMAIN messages : messages[m].user_id # g_user(s)}
                /\ \A m \in DOMAIN messages' : messages'[m] = messages[m]
                /\ \A u \in DOMAIN users' : users'[u] = users[u]
                /\ session'[s] = None]_vars

\* an account was deleted, messages had been posted, none is left
C6_Witness ==
    /\ response.op = "delete_user" /\ response.outcome = "ok"
    /\ nextMsgId > MaxMsgId
    /\ messages = << >>
    /\ \A s \in Sessions : g_user(s) = None

\* C7: a completed like toggle by an account on a message it does not own
\* flips the (account, message) edge and no other; a second one by the same
\* account on the same message, with no request in between, leaves the like
\* relation exactly as it was before the first.
C7_ToggleTwice ==
    LET e == <<toggled.uid, toggled.msg>>
    IN  /\ toggled.run = 1
           => /\ (e \in likes) # (e \in toggled.before)
              /\ likes \ {e} = toggled.before \ {e}
        /\ toggled.run = 2 => likes = toggled.before

\* two toggles in a row have brought back an edge that was there before
C7_Witness ==
    toggled.run = 2 /\ <<toggled.uid, toggled.msg>> \in likes

\* username and email are each unique among the accounts
UniqueAccounts ==
    \A u, v \in DOMAIN users :
        u # v => users[u].username # users[v].username /\ users[u].email # users[v].email

\* C8: a signup that reuses an existing username or email fails with the
\* uniqueness outcome, adds no account row and leaves the session anonymous;
\* username and email stay unique among the accounts.
C8_DuplicateSignup ==
    /\ []UniqueAccounts
    /\ [][\A s \in Sessions, form \in SignupForms :
             response'.op = "signup" /\ signup(s, "POST", TRUE, TRUE, form)
                 /\ (\E u \in DOMAIN users : users[u].username = form.username
                                             \/ users[u].email = form.email)
             => /\ response'.outcome = "uniqueness"
                /\ users' = users
                /\ session'[s] = None]_vars

\* a signup was refused for a taken username or email in a store of three
\* accounts, the browser left anonymous
C8_Witness ==
    /\ response.op = "signup" /\ response.outcome = "uniqueness"
    /\ Cardinality(DOMAIN users) = 3
    /\ \E s \in Sessions : session[s] = None

\* C9: a profile edit whose current password does not verify changes no field
\* of the acting account and yields "Incorrect password"; no profile edit
\* changes another account, adds one or removes one.
C9_ProfileReauthentication ==
    [][response'.op = "profile"
       => \A s \in Sessions, sub \in Submitted(EditForms), password \in Passwords :
             profile(s, sub[1], sub[2], sub[3], sub[4], password)
             => /\ DOMAIN users' = DOMAIN users
                /\ \A u \in DOMAIN users \ {g_user(s)} : users'[u] = users[u]
                /\ g_user(s) # None /\ sub[1] = "POST" /\ sub[2] /\ sub[3]
                      /\ users[g_user(s)].password # Hash(password)
                   => users' = users /\ response'.outcome = "incorrect_password"]_vars

\* an edit was refused for its password
C9_Witness ==
    response.op = "profile" /\ response.outcome = "incorrect_password"

\* C10: two like requests of one account on one message that both read the
\* edge before either wrote it (the later commit is on a stale read) end in a
\* state no two toggles one after the other produce: the edge is the opposite
\* of what both read, and the later commit failed (a second insert, or a delete
\* that matched no row).
C10_LostToggle ==
    \A v, w \in Workers :
        /\ v # w
        /\ inflight[v].pc = "done" /\ inflight[w].pc = "done"
        /\ SameToggle(inflight[v], inflight[w])
        /\ inflight[v].first /\ inflight[w].stale
        /\ inflight[w].msg \in DOMAIN messages
        => /\ (<<inflight[w].uid, inflight[w].msg>> \in likes) = ~inflight[w].present
           /\ inflight[v].outcome = "ok"
           /\ inflight[w].outcome = "error"

\* both races have happened, and the one that just ended left the edge absent
\* although two toggles in a row would have put it back
C10_Witness ==
    /\ raced = {"insert", "delete"}
    /\ \E v, w \in Workers :
          /\ v # w
          /\ inflight[v].pc = "done" /\ inflight[w].pc = "done"
          /\ SameToggle(inflight[v], inflight[w])
          /\ inflight[v].first /\ inflight[w].stale
          /\ inflight[w].present
          /\ inflight[w].msg \in DOMAIN messages
          /\ <<inflight[w].uid, inflight[w].msg>> \notin likes

=============================================================================
